---------------------------- MODULE Spec2Model ----------------------------
(***************************************************************************)
(* Flat-file route discovery of packages/remix-dev/config/flat-routes.ts.  *)
(*                                                                         *)
(* JavaScript strings are modelled as sequences of one-character strings,  *)
(* so that every string operation of the source (includes, endsWith,       *)
(* slice, lastIndexOf, the two regular expressions) is computed on         *)
(* characters.  The JavaScript value `undefined` is the sequence           *)
(* <<"undefined">>, which no string of characters equals.                  *)
(*                                                                         *)
(* Four specifications:                                                    *)
(*   SpecInfo  getRouteInfo on one route id: isIndexRoute, the tokenizer   *)
(*             getRouteSegments one character per step, createRoutePath.   *)
(*   Spec      flatRoutesUniversal on a list of files: getRouteMap, then   *)
(*             the recursion of defineNestedRoutes one route per step.     *)
(*   SpecPath  createRoutePath on a list of segments and an index flag.    *)
(*   SpecParent  findParentRouteId on a route and a map of names, one      *)
(*             iteration of its loop per step.                             *)
(***************************************************************************)
EXTENDS Naturals, Sequences, FiniteSets, TLC

VARIABLES
    pc,               \* position of the run
    err,              \* the Error thrown, NoError while none
    \* ---- getRouteInfo / getRouteSegments / createRoutePath (SpecInfo)
    routeIdWithoutRoutes,  \* getRouteInfo's route id, the tokenizer's argument
    routeId,          \* getRouteSegments' parameter (reassigned at line 152)
    isIndex,          \* getRouteInfo's `index`, createRoutePath's isIndex
    index,            \* getRouteSegments' read position (0-based count read)
    routeSegment,     \* normalized text of the segment being read
    rawRouteSegment,  \* raw text of the segment being read
    state,            \* tokenizer State
    routeSegments,    \* tokens pushed so far
    routePath,        \* createRoutePath's result
    \* ---- flatRoutesUniversal (Spec)
    routePaths,       \* the file list handed to flatRoutesUniversal
    routeMap,         \* Map id -> RouteInfo, in insertion order
    nameMap,          \* Map name -> RouteInfo (kept as name -> id)
    uniqueRoutes,     \* Map uniqueRouteId -> route id
    frames,           \* active calls of defineNestedRoutes, innermost last
    defined,          \* routes defined so far by defineRoute, in order
    manifest,         \* what flatRoutesUniversal returned, noManifest before
    firstCall,        \* file list and outcome of an earlier call, NoCall if none
    \* ---- findParentRouteId (SpecParent)
    candidate,        \* findParentRouteId's parentName, the candidate name
    lookups,          \* number of calls of nameMap.get made by the loop
    foundParentId     \* what findParentRouteId returned

infoVars == <<routeIdWithoutRoutes, routeId, isIndex, index, routeSegment, rawRouteSegment, state,
              routeSegments, routePath>>
flatVars == <<routePaths, routeMap, nameMap, uniqueRoutes, frames, defined,
              manifest>>
parentVars == <<candidate, lookups, foundParentId>>
vars == <<pc, err, infoVars, flatVars, firstCall, parentVars>>

-----------------------------------------------------------------------------
(* Bounds of the model.                                                    *)

\* longest generated route id, in characters (SpecInfo)
MaxIdLen == 3
\* longest file list (Spec)
MaxFiles == 3

-----------------------------------------------------------------------------
(* JavaScript values and string operations.                                *)

undefined == <<"undefined">>

Includes(s, c) == \E i \in 1..Len(s) : s[i] = c

StartsWith(s, p) == Len(p) <= Len(s) /\ SubSeq(s, 1, Len(p)) = p

EndsWith(s, p) ==
    Len(p) <= Len(s) /\ SubSeq(s, Len(s) - Len(p) + 1, Len(s)) = p

\* whether p occurs in s starting at position i (1-based)
OccursAt(s, p, i) ==
    i >= 1 /\ i + Len(p) - 1 <= Len(s) /\ SubSeq(s, i, i + Len(p) - 1) = p

\* String.prototype.slice(n) for 0 <= n
SliceFrom(s, n) == IF n >= Len(s) THEN <<>> ELSE SubSeq(s, n + 1, Len(s))

\* String.prototype.lastIndexOf(c), 1-based; 0 when c does not occur
LastIndexOf(s, c) ==
    IF Includes(s, c)
    THEN CHOOSE i \in 1..Len(s) :
             s[i] = c /\ \A j \in (i + 1)..Len(s) : s[j] # c
    ELSE 0

\* Array.prototype.join("/")
RECURSIVE JoinSlash(_)
JoinSlash(ss) ==
    IF ss = <<>> THEN <<>>
    ELSE IF Len(ss) = 1 THEN ss[1]
    ELSE ss[1] \o <<"/">> \o JoinSlash(Tail(ss))

-----------------------------------------------------------------------------
(* routesConvention.ts                                                     *)

escapeStart == "["
escapeEnd == "]"
optionalStart == "("
optionalEnd == ")"
paramPrefixChar == "$"

isSegmentSeparator(char) == char \in {"/", ".", "\\"}

routeModuleExts ==
    { <<".", "j", "s">>, <<".", "j", "s", "x">>, <<".", "t", "s">>,
      <<".", "t", "s", "x">>, <<".", "m", "d">>, <<".", "m", "d", "x">> }

-----------------------------------------------------------------------------
(* isIndexRoute and indexRouteRegex.                                       *)

W_index == <<"i", "n", "d", "e", "x">>
W__index == <<"_">> \o W_index
W_slash_index == <<"/">> \o W_index
W_slash_route == <<"/", "r", "o", "u", "t", "e">>

\* mutant of indexRouteRegex: the group (^|[.]|[+]\/) forgotten, so that the
\* word may follow any character
indexRouteRegexAnyPrefix(s) ==
    \/ \E i \in 1..Len(s) :
         \E w \in {W_index, W__index} :
              /\ OccursAt(s, w, i)
              /\ LET rest == SliceFrom(s, i + Len(w) - 1)
                 IN  \/ rest = <<>>
                     \/ /\ Len(rest) >= 2
                        /\ rest[1] = "/"
                        /\ \A j \in 2..Len(rest) : rest[j] # "/"
    \/ \E i \in 1..Len(s) :
         \/ OccursAt(s, W_slash_index \o <<"/">>, i)
         \/ OccursAt(s, <<"/">> \o W__index \o <<"/">>, i)

\* /((^|[.]|[+]\/)(index|_index))(\/[^/]+)?$|(\/_?index\/)/ .test(s)
indexRouteRegex(s) ==
    \/ \E i \in 1..Len(s) :
         /\ \/ i = 1
            \/ s[i - 1] = "."
            \/ (i >= 3 /\ s[i - 2] = "+" /\ s[i - 1] = "/")
         /\ \E w \in {W_index, W__index} :
              /\ OccursAt(s, w, i)
              /\ LET rest == SliceFrom(s, i + Len(w) - 1)
                 IN  \/ rest = <<>>
                     \/ /\ Len(rest) >= 2
                        /\ rest[1] = "/"
                        /\ \A j \in 2..Len(rest) : rest[j] # "/"
    \/ \E i \in 1..Len(s) :
         \/ OccursAt(s, W_slash_index \o <<"/">>, i)
         \/ OccursAt(s, <<"/">> \o W__index \o <<"/">>, i)

isIndexRoute(id) ==
    LET isFlatFile == ~Includes(id, "/")
    IN  IF isFlatFile THEN EndsWith(id, W__index) ELSE indexRouteRegex(id)

-----------------------------------------------------------------------------
(* getRouteSegments.                                                       *)

NoError == [kind |-> "none", segment |-> <<>>, char |-> "", id |-> <<>>, conflict |-> <<>>]

\* the value of `manifest` while flatRoutesUniversal has returned nothing: a
\* list of one placeholder that is no route (its id is undefined)
noManifest ==
    << [id |-> undefined, path |-> undefined, index |-> FALSE,
        file |-> undefined, parentId |-> undefined] >>

\* no earlier call of flatRoutesUniversal
NoCall == [routePaths |-> <<>>, err |-> NoError, manifest |-> noManifest]

\* the Error thrown by notSupportedInRR(segment, char)
notSupportedInRR(segment, char) ==
    [kind |-> "segment", segment |-> segment, char |-> char,
     id |-> <<>>, conflict |-> <<>>]

\* mutant of pushRouteSegment: the token is put first in the list
pushRouteSegmentFirst(segs, seg, raw) ==
    IF seg = <<>> THEN [routeSegments |-> segs, err |-> NoError]
    ELSE IF Includes(raw, "*")
         THEN [routeSegments |-> segs, err |-> notSupportedInRR(raw, "*")]
    ELSE IF Includes(raw, ":")
         THEN [routeSegments |-> segs, err |-> notSupportedInRR(raw, ":")]
    ELSE IF Includes(raw, "/")
         THEN [routeSegments |-> segs, err |-> notSupportedInRR(seg, "/")]
    ELSE [routeSegments |-> <<seg>> \o segs, err |-> NoError]

\* pushRouteSegment: the token list after the call and the error thrown
pushRouteSegment(segs, seg, raw) ==
    IF seg = <<>> THEN [routeSegments |-> segs, err |-> NoError]
    ELSE IF Includes(raw, "*")
         THEN [routeSegments |-> segs, err |-> notSupportedInRR(raw, "*")]
    ELSE IF Includes(raw, ":")
         THEN [routeSegments |-> segs, err |-> notSupportedInRR(raw, ":")]
    ELSE IF Includes(raw, "/")
         THEN [routeSegments |-> segs, err |-> notSupportedInRR(seg, "/")]
    ELSE [routeSegments |-> Append(segs, seg), err |-> NoError]

\* lines 144-154: the id the loop reads, the folder marker removed
stripFolderMarker(id) ==
    LET hasFolder == Includes(id, "/") \/ Includes(id, "\\")
    IN  IF hasFolder /\ (EndsWith(id, W_slash_index) \/ EndsWith(id, W_slash_route))
        THEN SubSeq(id, 1, LastIndexOf(id, "/") - 1)
        ELSE id

\* the locals of getRouteSegments before the loop
tokenizerStart ==
    [routeSegments |-> <<>>, routeSegment |-> <<>>, rawRouteSegment |-> <<>>,
     state |-> "NORMAL", err |-> NoError]

\* mutant of paramRewrite: the test index === routeId.length forgotten
paramRewriteNoSplat(t, char, atEnd) ==
    [t EXCEPT !.routeSegment = @ \o <<":">>,
              !.rawRouteSegment = Append(@, char)]

\* the rewrite of a leading `$` (lines 201-210 and 239-248)
paramRewrite(t, char, atEnd) ==
    [t EXCEPT !.routeSegment = @ \o (IF atEnd THEN <<"*">> ELSE <<":">>),
              !.rawRouteSegment = Append(@, char)]

appendChar(t, char) ==
    [t EXCEPT !.routeSegment = Append(@, char),
              !.rawRouteSegment = Append(@, char)]

\* lines 187-190: the locals after pushRouteSegment returned p, or threw
startNextSegment(t, p) ==
    IF p.err # NoError
    THEN [t EXCEPT !.err = p.err]
    ELSE [t EXCEPT !.routeSegments = p.routeSegments,
                   !.routeSegment = <<>>,
                   !.rawRouteSegment = <<>>,
                   !.state = "NORMAL"]

\* mutant of stepNormal: the `$` rewrite done in the first segment only
stepNormalFirstSegmentOnly(t, char, atEnd) ==
    IF isSegmentSeparator(char)
    THEN startNextSegment(
             t, pushRouteSegment(t.routeSegments, t.routeSegment, t.rawRouteSegment))
    ELSE IF char = escapeStart THEN [t EXCEPT !.state = "ESCAPE"]
    ELSE IF char = optionalStart THEN [t EXCEPT !.state = "OPTIONAL"]
    ELSE IF t.routeSegments = <<>> /\ t.routeSegment = <<>> /\ char = paramPrefixChar
         THEN paramRewrite(t, char, atEnd)
    ELSE appendChar(t, char)

\* case "NORMAL"
stepNormal(t, char, atEnd) ==
    IF isSegmentSeparator(char)
    THEN startNextSegment(
             t, pushRouteSegment(t.routeSegments, t.routeSegment, t.rawRouteSegment))
    ELSE IF char = escapeStart THEN [t EXCEPT !.state = "ESCAPE"]
    ELSE IF char = optionalStart THEN [t EXCEPT !.state = "OPTIONAL"]
    ELSE IF t.routeSegment = <<>> /\ char = paramPrefixChar
         THEN paramRewrite(t, char, atEnd)
    ELSE appendChar(t, char)

\* case "ESCAPE"
stepEscape(t, char) ==
    IF char = escapeEnd THEN [t EXCEPT !.state = "NORMAL"]
    ELSE appendChar(t, char)

\* mutant of stepOptional: a leading `$` is appended as it is
stepOptionalNoRewrite(t, char, atEnd) ==
    IF char = optionalEnd
    THEN [t EXCEPT !.routeSegment = Append(@, "?"),
                   !.rawRouteSegment = Append(@, "?"),
                   !.state = "NORMAL"]
    ELSE IF char = escapeStart THEN [t EXCEPT !.state = "OPTIONAL_ESCAPE"]
    ELSE appendChar(t, char)

\* case "OPTIONAL"
stepOptional(t, char, atEnd) ==
    IF char = optionalEnd
    THEN [t EXCEPT !.routeSegment = Append(@, "?"),
                   !.rawRouteSegment = Append(@, "?"),
                   !.state = "NORMAL"]
    ELSE IF char = escapeStart THEN [t EXCEPT !.state = "OPTIONAL_ESCAPE"]
    ELSE IF t.routeSegment = <<>> /\ char = paramPrefixChar
         THEN paramRewrite(t, char, atEnd)
    ELSE appendChar(t, char)

\* mutant of stepOptionalEscape: `]` leads back to NORMAL
stepOptionalEscapeToNormal(t, char) ==
    IF char = escapeEnd THEN [t EXCEPT !.state = "NORMAL"]
    ELSE appendChar(t, char)

\* case "OPTIONAL_ESCAPE"
stepOptionalEscape(t, char) ==
    IF char = escapeEnd THEN [t EXCEPT !.state = "OPTIONAL"]
    ELSE appendChar(t, char)

\* one iteration of the while loop (lines 180-265)
tokenizerStep(t, char, atEnd) ==
    CASE t.state = "NORMAL" -> stepNormal(t, char, atEnd)
      [] t.state = "ESCAPE" -> stepEscape(t, char)
      [] t.state = "OPTIONAL" -> stepOptional(t, char, atEnd)
      [] t.state = "OPTIONAL_ESCAPE" -> stepOptionalEscape(t, char)

\* lines 267-269
flushed(t, p) == [t EXCEPT !.routeSegments = p.routeSegments, !.err = p.err]

\* mutant of tokenizerFlush: an id that ends outside NORMAL is refused
tokenizerFlushRefusesUnterminated(t) ==
    IF t.state # "NORMAL"
    THEN [t EXCEPT !.err = notSupportedInRR(t.rawRouteSegment, escapeStart)]
    ELSE flushed(t, pushRouteSegment(t.routeSegments, t.routeSegment, t.rawRouteSegment))

tokenizerFlush(t) ==
    flushed(t, pushRouteSegment(t.routeSegments, t.routeSegment, t.rawRouteSegment))

RECURSIVE tokenizerRun(_, _, _)
tokenizerRun(t, id, i) ==
    IF t.err # NoError THEN t
    ELSE IF i > Len(id) THEN tokenizerFlush(t)
    ELSE tokenizerRun(tokenizerStep(t, id[i], i = Len(id)), id, i + 1)

\* getRouteSegments(routeId): [routeSegments, err]
returned(t) == [routeSegments |-> t.routeSegments, err |-> t.err]

getRouteSegments(id) ==
    returned(tokenizerRun(tokenizerStart, stripFolderMarker(id), 1))

-----------------------------------------------------------------------------
(* createRoutePath.                                                        *)

\* mutant of routePathLoop: the segments joined by "/" with no leading "/"
RECURSIVE routePathLoopNoLeadingSlash(_, _)
routePathLoopNoLeadingSlash(segs, result) ==
    IF segs = <<>> THEN result
    ELSE LET segment == Head(segs)
         IN  IF StartsWith(segment, <<"_">>)
             THEN routePathLoopNoLeadingSlash(Tail(segs), result)
             ELSE LET stripped == IF EndsWith(segment, <<"_">>)
                                  THEN SubSeq(segment, 1, Len(segment) - 1)
                                  ELSE segment
                  IN  routePathLoopNoLeadingSlash(
                          Tail(segs),
                          IF result = <<>> THEN stripped
                          ELSE result \o <<"/">> \o stripped)

\* the for loop of createRoutePath (lines 314-326)
RECURSIVE routePathLoop(_, _)
routePathLoop(segs, result) ==
    IF segs = <<>> THEN result
    ELSE LET segment == Head(segs)
         IN  IF StartsWith(segment, <<"_">>)
             THEN routePathLoop(Tail(segs), result)
             ELSE LET stripped == IF EndsWith(segment, <<"_">>)
                                  THEN SubSeq(segment, 1, Len(segment) - 1)
                                  ELSE segment
                  IN  routePathLoop(Tail(segs), result \o <<"/">> \o stripped)

\* line 328: result || undefined
orUndefined(result) == IF result = <<>> THEN undefined ELSE result

\* mutant of createRoutePath: the last segment of an index route is kept
createRoutePathKeepsIndexSegment(segs, idx) ==
    orUndefined(routePathLoop(segs, <<>>))

\* lines 307-329
createRoutePath(segs, idx) ==
    orUndefined(
        routePathLoop(
            IF idx /\ segs # <<>> THEN SubSeq(segs, 1, Len(segs) - 1) ELSE segs,
            <<>>))

-----------------------------------------------------------------------------
(* Recognizing route files: isRouteModuleFile, routeRegex, createRouteId.  *)

appDirectory == <<"/", "a", "p", "p">>
prefix == <<"r", "o", "u", "t", "e", "s">>

\* characters that are no letter and no digit
Punctuation ==
    {".", "/", "\\", "$", "[", "]", "(", ")", "*", ":", "+", "_", "?", "-"}

\* position of the "." that starts the extension /\.[a-z0-9]+$/i, 0 if none
extensionStart(s) ==
    LET dot == LastIndexOf(s, ".")
    IN  IF /\ dot >= 1
           /\ dot < Len(s)
           /\ \A j \in (dot + 1)..Len(s) : s[j] \notin Punctuation
        THEN dot
        ELSE 0

\* createRouteId(file) of ./routes: the extension stripped, `\` made `/`
createRouteId(file) ==
    LET dot == extensionStart(file)
        stripped == IF dot = 0 THEN file ELSE SubSeq(file, 1, dot - 1)
    IN  [i \in 1..Len(stripped) |->
            IF stripped[i] = "\\" THEN "/" ELSE stripped[i]]

\* lines 367-373
createFlatRouteId(filePath) ==
    LET id == createRouteId(filePath)
    IN  IF Includes(id, "/") /\ EndsWith(id, W_slash_index)
        THEN SubSeq(id, 1, LastIndexOf(id, "/") - 1)
        ELSE id

\* path.extname: from the last "." of the base name on, "" when the base
\* name has none or only starts with one
extname(filePath) ==
    LET base == SliceFrom(filePath, LastIndexOf(filePath, "/"))
        dot == LastIndexOf(base, ".")
    IN  IF dot <= 1 THEN <<>> ELSE SliceFrom(base, dot - 1)

\* the class [^/\\:?*] of routeRegex
routeRegexChar(c) == c \notin {"/", "\\", ":", "?", "*"}

\* /(([+][/\\][^/\\:?*]+)|[/\\](index|route)|(_[^/\\:?*]+))\.(tsx?|jsx?|mdx?)$$/
routeRegex(s) ==
    \E ext \in { <<".", "t", "s">>, <<".", "t", "s", "x">>, <<".", "j", "s">>,
                 <<".", "j", "s", "x">>, <<".", "m", "d">>, <<".", "m", "d", "x">> } :
        /\ EndsWith(s, ext)
        /\ LET stem == SubSeq(s, 1, Len(s) - Len(ext))
               W_route == <<"r", "o", "u", "t", "e">>
           IN  \/ \E sep \in {"/", "\\"}, w \in {W_index, W_route} :
                      EndsWith(stem, <<sep>> \o w)
               \/ \E i \in 1..Len(stem) :
                      /\ stem[i] = "+"
                      /\ i + 2 <= Len(stem)
                      /\ stem[i + 1] \in {"/", "\\"}
                      /\ \A j \in (i + 2)..Len(stem) : routeRegexChar(stem[j])
               \/ \E i \in 1..Len(stem) :
                      /\ stem[i] = "_"
                      /\ i + 1 <= Len(stem)
                      /\ \A j \in (i + 1)..Len(stem) : routeRegexChar(stem[j])

\* mutant of isRouteModuleFile: the extension of a flat file is not looked at
isRouteModuleFileAnyFlatFile(filePath) ==
    LET isFlatFile == ~Includes(filePath, "/")
    IN  IF isFlatFile THEN TRUE ELSE routeRegex(filePath)

\* lines 358-365
isRouteModuleFile(filePath) ==
    LET isFlatFile == ~Includes(filePath, "/")
    IN  IF isFlatFile THEN extname(filePath) \in routeModuleExts
        ELSE routeRegex(filePath)

-----------------------------------------------------------------------------
(* getRouteInfo, findParentRouteId, getRouteMap.                           *)

\* lines 297-304; err is the error getRouteSegments threw
routeInfoOf(filePathWithoutApp, id, idx, seg) ==
    [id |-> id,
     path |-> createRoutePath(seg.routeSegments, idx),
     file |-> filePathWithoutApp,
     name |-> JoinSlash(seg.routeSegments),
     segments |-> seg.routeSegments,
     index |-> idx,
     parentId |-> undefined,
     err |-> seg.err]

\* lines 292-295
getRouteInfoOfId(filePathWithoutApp, id) ==
    routeInfoOf(filePathWithoutApp, id, isIndexRoute(id), getRouteSegments(id))

\* lines 291-292
getRouteInfoOfFile(filePathWithoutApp) ==
    getRouteInfoOfId(
        filePathWithoutApp,
        SliceFrom(createFlatRouteId(filePathWithoutApp), Len(prefix) + 1))

\* lines 285-305
getRouteInfo(filePath) ==
    getRouteInfoOfFile(SliceFrom(filePath, Len(appDirectory) + 1))

\* position of the entry of key id in a Map kept in insertion order, 0 if none
mapPosition(map, id) ==
    IF \E i \in 1..Len(map) : map[i].id = id
    THEN CHOOSE i \in 1..Len(map) : map[i].id = id
    ELSE 0

\* Map.prototype.set(info.id, info): a new key is added last, a key already
\* there keeps its place and takes the new value
mapSet(map, info) ==
    LET at == mapPosition(map, info.id)
    IN  IF at = 0 THEN Append(map, info) ELSE [map EXCEPT ![at] = info]

\* Map.prototype.get(id), undefined when the key is missing
mapGet(map, id) ==
    LET at == mapPosition(map, id)
    IN  IF at = 0 THEN undefined ELSE map[at]

\* mutant of cutAtLastSlash: a name without "/" is left as it is
cutAtLastSlashOnly(parentName) ==
    IF Includes(parentName, "/")
    THEN SubSeq(parentName, 1, LastIndexOf(parentName, "/") - 1)
    ELSE parentName

\* line 280: parentName.substring(0, parentName.lastIndexOf("/")), where
\* substring takes the index -1 of a name without "/" as 0
cutAtLastSlash(parentName) ==
    IF LastIndexOf(parentName, "/") <= 1 THEN <<>>
    ELSE SubSeq(parentName, 1, LastIndexOf(parentName, "/") - 1)

\* mutant of findParentLoop: only the immediate parent name is looked up, the
\* walk towards shorter prefixes is left out
findParentLoopImmediateOnly(parentName, names) ==
    IF parentName = <<>> THEN undefined
    ELSE IF parentName \in DOMAIN names THEN names[parentName]
    ELSE undefined

\* the while loop of findParentRouteId (lines 277-282)
RECURSIVE findParentLoop(_, _)
findParentLoop(parentName, names) ==
    IF parentName = <<>> THEN undefined
    ELSE IF parentName \in DOMAIN names THEN names[parentName]
    ELSE LET last == LastIndexOf(parentName, "/")
         IN  findParentLoop(
                 IF last <= 1 THEN <<>> ELSE SubSeq(parentName, 1, last - 1),
                 names)

\* mutant of findParentRouteId: the route's own name is the first candidate
findParentRouteIdFromOwnName(routeInfo, names) ==
    findParentLoop(JoinSlash(routeInfo.segments), names)

\* lines 272-283
findParentRouteId(routeInfo, names) ==
    LET segs == routeInfo.segments
        parentName == IF segs = <<>> THEN <<>>
                      ELSE JoinSlash(SubSeq(segs, 1, Len(segs) - 1))
    IN  findParentLoop(parentName, names)

\* lines 344-345: the two maps after routeMap.set and nameMap.set, the field
\* err of the model dropped from the RouteInfo
withRoute(c, info) ==
    [routeMap |-> mapSet(c.routeMap, [f \in DOMAIN info \ {"err"} |-> info[f]]),
     nameMap |-> (info.name :> info.id) @@ c.nameMap,
     err |-> info.err]

\* line 342
isRouteModulePath(filePath) ==
    isRouteModuleFile(SliceFrom(filePath, Len(appDirectory \o <<"/">> \o prefix) + 1))

\* the first loop of getRouteMap (lines 339-347) from file i on, c being
\* [routeMap, nameMap, err] so far; it stops at a file whose tokenizing throws
RECURSIVE collectRoutes(_, _, _)
collectRoutes(paths, i, c) ==
    IF i > Len(paths) \/ c.err # NoError THEN c
    ELSE IF isRouteModulePath(paths[i])
         THEN collectRoutes(paths, i + 1, withRoute(c, getRouteInfo(paths[i])))
         ELSE collectRoutes(paths, i + 1, c)

\* lines 336-337
emptyMaps == [routeMap |-> <<>>, nameMap |-> <<>>, err |-> NoError]

\* the second loop of getRouteMap (lines 349-353)
resolveParentIds(map, names) ==
    [i \in 1..Len(map) |->
        [map[i] EXCEPT !.parentId = findParentRouteId(map[i], names)]]

-----------------------------------------------------------------------------
(* flatRoutesUniversal and defineNestedRoutes.                             *)

\* a JavaScript string used as a condition: undefined and "" are falsy
truthy(v) == v # undefined /\ v # <<>>

\* path.posix.join(prefix, id), for ids without "." and ".." components
posixJoin(a, b) == IF b = <<>> THEN a ELSE a \o <<"/">> \o b

\* Object.values(routeMap) (line 90): the own enumerable properties of a Map
\* object, of which it has none whatever its entries
objectValues(map) == <<>>

\* mutant of childRoutesOf: at the top of the tree every route is taken
childRoutesOfAllAtRoot(map, parentId) ==
    IF parentId = undefined THEN map
    ELSE SelectSeq(map, LAMBDA routeInfo : routeInfo.parentId = parentId)

\* line 62: routes.filter(routeInfo => routeInfo.parentId === parentId)
childRoutesOf(map, parentId) ==
    SelectSeq(map, LAMBDA routeInfo : routeInfo.parentId = parentId)

\* lines 65-66
parentRoutePathOf(map, parentId) ==
    LET parentRoute == IF truthy(parentId) THEN mapGet(map, parentId) ELSE undefined
    IN  IF parentRoute = undefined \/ parentRoute.path = undefined
        THEN <<"/">>
        ELSE parentRoute.path

\* mutant of relativeRoutePath: the parent's path is not sliced off
relativeRoutePathUnsliced(childRoute, parentRoutePath) ==
    LET sliced == IF childRoute.path = undefined THEN <<>> ELSE childRoute.path
    IN  IF sliced # <<>> /\ sliced[1] = "/" THEN Tail(sliced) ELSE sliced

\* lines 68-70
relativeRoutePath(childRoute, parentRoutePath) ==
    LET sliced == IF childRoute.path = undefined THEN <<>>
                  ELSE SliceFrom(childRoute.path, Len(parentRoutePath))
    IN  IF sliced # <<>> /\ sliced[1] = "/" THEN Tail(sliced) ELSE sliced

\* line 75
uniqueRouteIdOf(childRoute) ==
    (IF truthy(childRoute.path) THEN childRoute.path ELSE <<>>)
        \o (IF childRoute.index THEN <<"?", "i", "n", "d", "e", "x">> ELSE <<>>)

\* mutant of newUniqueRoutes: the registry of the call before is used again
newUniqueRoutesKept == uniqueRoutes

\* line 54: new Map<string, string>()
newUniqueRoutes == <<>>

\* mutant of uniqueRoutesGet: the registry never finds a key
uniqueRoutesGetNothing(registry, key) == undefined

\* line 78: uniqueRoutes.get(uniqueRouteId)
uniqueRoutesGet(registry, key) ==
    IF key \in DOMAIN registry THEN registry[key] ELSE undefined

\* lines 77-87: the route id the child conflicts with, undefined if none
conflictOf(registry, childRoute) ==
    LET uniqueRouteId == uniqueRouteIdOf(childRoute)
        conflict == IF truthy(uniqueRouteId)
                    THEN uniqueRoutesGet(registry, uniqueRouteId)
                    ELSE undefined
    IN  IF truthy(conflict) THEN conflict ELSE undefined

\* line 86
uniqueRoutesSet(registry, childRoute) ==
    LET uniqueRouteId == uniqueRouteIdOf(childRoute)
    IN  IF truthy(uniqueRouteId)
        THEN (uniqueRouteId :> childRoute.id) @@
                 [k \in DOMAIN registry \ {uniqueRouteId} |-> registry[k]]
        ELSE registry

\* lines 90-92
invalidChildRoutesOf(map, childRoute) ==
    SelectSeq(objectValues(map), LAMBDA routeInfo : routeInfo.parentId = childRoute.id)

\* defineRoute of ./routes: the route added to the manifest, its parent the
\* route whose children callback is running, "root" at the top
definedRoute(routePathArg, childRoute, parentId) ==
    [id |-> posixJoin(prefix, childRoute.id),
     path |-> IF routePathArg = <<>> THEN undefined ELSE routePathArg,
     index |-> childRoute.index,
     file |-> childRoute.file,
     parentId |-> IF parentId = undefined THEN <<"root">>
                  ELSE posixJoin(prefix, parentId)]

-----------------------------------------------------------------------------
(* The files of Spec: paths below appDirectory/routes, one per convention  *)
(* of the flat routes (index, nesting, pathless layout, trailing `_`,      *)
(* escape, folder, unrecognized file, unsupported character).              *)

Ext_tsx == <<".", "t", "s", "x">>
Ext_css == <<".", "c", "s", "s">>

F_index == W__index \o Ext_tsx
F_a == <<"a">> \o Ext_tsx
F_a_escaped == <<"[", "a", "]">> \o Ext_tsx
F_a_index == <<"a", ".">> \o W__index \o Ext_tsx
F_a_index_b == <<"a", ".">> \o W__index \o <<".", "_", "b">> \o Ext_tsx
F_a_b == <<"a", ".", "b">> \o Ext_tsx
F_a_b_c == <<"a", ".", "b", ".", "c">> \o Ext_tsx
F_a_trailing_b == <<"a", "_", ".", "b">> \o Ext_tsx
F_x == <<"_", "x">> \o Ext_tsx
F_y == <<"_", "y">> \o Ext_tsx
F_a_folder == <<"a">> \o W_slash_index \o Ext_tsx
F_star == <<"a", "*">> \o Ext_tsx
F_css == <<"a", ":", "b">> \o Ext_css
F_nested_other == <<"a", "/", "b", "*">> \o Ext_tsx

RouteFileNames ==
    { F_index, F_a, F_a_escaped, F_a_index, F_a_index_b, F_a_b, F_a_b_c,
      F_a_trailing_b, F_x, F_y, F_a_folder, F_star, F_css, F_nested_other }

absolutePath(name) == appDirectory \o <<"/">> \o prefix \o <<"/">> \o name

\* the file lists: at most MaxFiles distinct files, in any order
FileLists ==
    UNION { { l \in [1..n -> RouteFileNames] :
                \A i, j \in 1..n : i # j => l[i] # l[j] } : n \in 0..MaxFiles }

-----------------------------------------------------------------------------
(* Route ids of SpecInfo: every string of at most MaxIdLen characters over *)
(* IdChars, and the ids the documentation of the functions names.          *)

IdChars == {"a", "$", ".", "/", "[", "]", "(", ")", "*", ":"}

RECURSIVE StringsUpTo(_)
StringsUpTo(n) ==
    IF n = 0 THEN {<<>>}
    ELSE LET shorter == StringsUpTo(n - 1)
         IN  shorter \cup {Append(s, c) : s \in shorter, c \in IdChars}

W_routes == <<"r", "o", "u", "t", "e", "s">>
W_about == <<"a", "b", "o", "u", "t">>
W_lang == <<"l", "a", "n", "g">>
W_ref == <<"r", "e", "f">>
W_tsx == <<"t", "s", "x">>
W_files == <<"f", "i", "l", "e", "s">>
W_users == <<"u", "s", "e", "r", "s">>
W_id == <<"i", "d">>
W_auth == <<"a", "u", "t", "h">>
W_login == <<"l", "o", "g", "i", "n">>

Id_routes_index == W_routes \o <<"/">> \o W__index
Id_routes_about == W_routes \o <<"/">> \o W_about
Id_routesPlus_index == W_routes \o <<"+", "/">> \o W__index
Id_lang_ref_tsx == <<"$">> \o W_lang \o <<"/", "$">> \o W_ref \o <<".">> \o W_tsx
Id_lang_ref == <<"$">> \o W_lang \o <<"/", "$">> \o W_ref
Id_files_splat_tsx == W_files \o <<".", "$", ".">> \o W_tsx
Id_files_splat == W_files \o <<".", "$">>
Id_users_escaped_id == W_users \o <<".", "[", "$", "]">> \o W_id
Id_users_param_id == W_users \o <<".", "$">> \o W_id

SampleIds ==
    { W__index, Id_routes_index, Id_routes_about, Id_routesPlus_index,
      W_users \o <<".">> \o W__index,
      <<"a">> \o W_slash_index, <<"a">> \o W_slash_route,
      <<"a", "/">> \o W__index \o <<"/", "b">>,
      Id_lang_ref_tsx, Id_lang_ref, Id_files_splat_tsx, Id_files_splat,
      Id_users_escaped_id, Id_users_param_id,
      <<"_">> \o W_auth \o <<".">> \o W_login,
      W_users \o <<"_", ".">> \o W_id,
      <<"$", "a", "[", "/", "]", "b">>,
      <<"a", ".">> \o W_index, <<"a", "\\", "b">>, <<"a", ".", "b", ".", "c">>,
      <<"$">> \o W_slash_route, <<"a", "/", "$">> \o W_slash_index,
      <<"(", "$", "a", ")", ".", "(", "[", ".", "]", ")">> }

RouteIds == StringsUpTo(MaxIdLen) \cup SampleIds

-----------------------------------------------------------------------------
(* SpecInfo: getRouteInfo (lines 285-305) from its route id on.            *)

InfoInit ==
    /\ pc = "isIndexRoute"
    /\ err = NoError
    /\ routeIdWithoutRoutes \in RouteIds
    /\ routeId = <<>>
    /\ isIndex = FALSE
    /\ index = 0
    /\ routeSegment = <<>>
    /\ rawRouteSegment = <<>>
    /\ state = "NORMAL"
    /\ routeSegments = <<>>
    /\ routePath = undefined
    /\ routePaths = <<>>
    /\ routeMap = <<>>
    /\ nameMap = <<>>
    /\ uniqueRoutes = <<>>
    /\ frames = <<>>
    /\ defined = <<>>
    /\ manifest = noManifest
    /\ firstCall = NoCall
    /\ candidate = <<>>
    /\ lookups = 0
    /\ foundParentId = undefined

\* the tokenizer's locals as one record
tokenizerLocals ==
    [routeSegments |-> routeSegments, routeSegment |-> routeSegment,
     rawRouteSegment |-> rawRouteSegment, state |-> state, err |-> NoError]

\* assign the locals from a record; a thrown error ends the run
SetTokenizerLocals(t, nextPc) ==
    /\ routeSegments' = t.routeSegments
    /\ routeSegment' = t.routeSegment
    /\ rawRouteSegment' = t.rawRouteSegment
    /\ state' = t.state
    /\ err' = t.err
    /\ pc' = IF t.err # NoError THEN "error" ELSE nextPc

\* line 293
IsIndexRoute ==
    /\ pc = "isIndexRoute"
    /\ isIndex' = isIndexRoute(routeIdWithoutRoutes)
    /\ pc' = "getRouteSegments"
    /\ UNCHANGED <<err, routeIdWithoutRoutes, routeId, index, routeSegment,
                   rawRouteSegment, state, routeSegments, routePath, flatVars, firstCall, parentVars>>

\* lines 138-154
EnterGetRouteSegments ==
    /\ pc = "getRouteSegments"
    /\ routeId' = stripFolderMarker(routeIdWithoutRoutes)
    /\ index' = 0
    /\ SetTokenizerLocals(tokenizerStart, "loop")
    /\ UNCHANGED <<routeIdWithoutRoutes, isIndex, routePath, flatVars, firstCall, parentVars>>

\* one iteration of the loop (lines 180-265)
Iteration ==
    /\ index < Len(routeId)
    /\ index' = index + 1
    /\ SetTokenizerLocals(
          tokenizerStep(tokenizerLocals, routeId[index + 1], index + 1 = Len(routeId)),
          "loop")
    /\ UNCHANGED <<routeIdWithoutRoutes, routeId, isIndex, routePath, flatVars, firstCall, parentVars>>

\* lines 185-215
Normal ==
    /\ pc = "loop"
    /\ state = "NORMAL"
    /\ Iteration

\* lines 216-225
Escape ==
    /\ pc = "loop"
    /\ state = "ESCAPE"
    /\ Iteration

\* lines 226-253
Optional ==
    /\ pc = "loop"
    /\ state = "OPTIONAL"
    /\ Iteration

\* lines 254-263
OptionalEscape ==
    /\ pc = "loop"
    /\ state = "OPTIONAL_ESCAPE"
    /\ Iteration

\* lines 267-269
Flush ==
    /\ pc = "loop"
    /\ index = Len(routeId)
    /\ SetTokenizerLocals(tokenizerFlush(tokenizerLocals), "createRoutePath")
    /\ UNCHANGED <<routeIdWithoutRoutes, routeId, isIndex, index, routePath, flatVars, firstCall, parentVars>>

\* line 295
CreateRoutePath ==
    /\ pc = "createRoutePath"
    /\ routePath' = createRoutePath(routeSegments, isIndex)
    /\ pc' = "done"
    /\ UNCHANGED <<err, routeIdWithoutRoutes, routeId, isIndex, index, routeSegment,
                   rawRouteSegment, state, routeSegments, flatVars, firstCall, parentVars>>

InfoNext ==
    \/ IsIndexRoute
    \/ EnterGetRouteSegments
    \/ Normal
    \/ Escape
    \/ Optional
    \/ OptionalEscape
    \/ Flush
    \/ CreateRoutePath

SpecInfo == InfoInit /\ [][InfoNext]_vars

-----------------------------------------------------------------------------
(* Spec: flatRoutesUniversal (lines 47-118) on a list of files.            *)

Init ==
    /\ pc = "getRouteMap"
    /\ err = NoError
    /\ routePaths \in { [i \in 1..Len(l) |-> absolutePath(l[i])] : l \in FileLists }
    /\ routeMap = <<>>
    /\ nameMap = <<>>
    /\ uniqueRoutes = <<>>
    /\ frames = <<>>
    /\ defined = <<>>
    /\ manifest = noManifest
    /\ firstCall = NoCall
    /\ candidate = <<>>
    /\ lookups = 0
    /\ foundParentId = undefined
    /\ routeIdWithoutRoutes = <<>>
    /\ routeId = <<>>
    /\ isIndex = FALSE
    /\ index = 0
    /\ routeSegment = <<>>
    /\ rawRouteSegment = <<>>
    /\ state = "NORMAL"
    /\ routeSegments = <<>>
    /\ routePath = undefined

\* the call of defineNestedRoutes that is running, and the route its loop is at
frame == frames[Len(frames)]
childRoutes == childRoutesOf(routeMap, frame.parentId)
childRoute == childRoutes[frame.i]
InLoop == pc = "defineNestedRoutes" /\ frames # <<>> /\ frame.i <= Len(childRoutes)

\* mutant of framesAfter: the children of an index route are defined as well
framesAfterAlwaysNested(nested) ==
    Append([frames EXCEPT ![Len(frames)].i = @ + 1],
           [parentId |-> childRoute.id, i |-> 1])

\* the frames after the loop went on to its next route, with the call for the
\* children of the route just defined when there is one
framesAfter(nested) ==
    LET advanced == [frames EXCEPT ![Len(frames)].i = @ + 1]
    IN  IF nested THEN Append(advanced, [parentId |-> childRoute.id, i |-> 1])
        ELSE advanced

\* assign the two maps; a thrown error ends the run
SetMaps(c) ==
    /\ routeMap' = c.routeMap
    /\ nameMap' = c.nameMap
    /\ err' = c.err
    /\ pc' = IF c.err # NoError THEN "error" ELSE "parentIds"

\* lines 336-347: the first loop of getRouteMap fills the two maps; an error
\* thrown by the tokenizer ends the run
CollectRoutes ==
    /\ pc = "getRouteMap"
    /\ SetMaps(collectRoutes(routePaths, 1, emptyMaps))
    /\ UNCHANGED <<routePaths, uniqueRoutes, frames, defined, manifest, infoVars, firstCall, parentVars>>

\* lines 349-355, 54-56 and 117: the second loop of getRouteMap sets every
\* parentId, the registry of unique routes is created, and defineRoutes
\* starts an empty manifest and calls defineNestedRoutes for the top of the
\* tree
ResolveParentIds ==
    /\ pc = "parentIds"
    /\ routeMap' = resolveParentIds(routeMap, nameMap)
    /\ uniqueRoutes' = newUniqueRoutes
    /\ defined' = <<>>
    /\ frames' = << [parentId |-> undefined, i |-> 1] >>
    /\ pc' = "defineNestedRoutes"
    /\ UNCHANGED <<err, routePaths, nameMap, manifest, infoVars, firstCall, parentVars>>

\* mutant of ThrowConflict: the routes defined so far are handed to the caller
ThrowConflictPartialManifest ==
    /\ InLoop
    /\ conflictOf(uniqueRoutes, childRoute) # undefined
    /\ err' = [kind |-> "conflict", segment |-> childRoute.path, char |-> "",
               id |-> childRoute.id,
               conflict |-> conflictOf(uniqueRoutes, childRoute)]
    /\ pc' = "error"
    /\ manifest' = defined
    /\ UNCHANGED <<routePaths, routeMap, nameMap, uniqueRoutes, frames, defined,
                   infoVars, firstCall, parentVars>>

\* lines 77-85: the route's uniqueness key is registered already
ThrowConflict ==
    /\ InLoop
    /\ conflictOf(uniqueRoutes, childRoute) # undefined
    /\ err' = [kind |-> "conflict", segment |-> childRoute.path, char |-> "",
               id |-> childRoute.id,
               conflict |-> conflictOf(uniqueRoutes, childRoute)]
    /\ pc' = "error"
    /\ UNCHANGED <<routePaths, routeMap, nameMap, uniqueRoutes, frames, defined,
                   manifest, infoVars, firstCall, parentVars>>

\* lines 86-103: an index route is defined, or refused for its child routes
DefineIndexRoute ==
    /\ InLoop
    /\ conflictOf(uniqueRoutes, childRoute) = undefined
    /\ childRoute.index
    /\ uniqueRoutes' = uniqueRoutesSet(uniqueRoutes, childRoute)
    /\ IF Len(invalidChildRoutesOf(routeMap, childRoute)) > 0
       THEN /\ err' = [kind |-> "indexChild", segment |-> <<>>, char |-> "",
                       id |-> childRoute.id, conflict |-> <<>>]
            /\ pc' = "error"
            /\ UNCHANGED <<frames, defined>>
       ELSE /\ defined' = Append(defined,
                   definedRoute(
                       relativeRoutePath(childRoute,
                                         parentRoutePathOf(routeMap, frame.parentId)),
                       childRoute, frame.parentId))
            /\ frames' = framesAfter(FALSE)
            /\ UNCHANGED <<pc, err>>
    /\ UNCHANGED <<routePaths, routeMap, nameMap, manifest, infoVars, firstCall, parentVars>>

\* lines 86-87 and 104-113: a route that is no index route is defined and
\* defineRoute calls defineNestedRoutes for its children
DefineRoute ==
    /\ InLoop
    /\ conflictOf(uniqueRoutes, childRoute) = undefined
    /\ ~childRoute.index
    /\ uniqueRoutes' = uniqueRoutesSet(uniqueRoutes, childRoute)
    /\ defined' = Append(defined,
           definedRoute(
               relativeRoutePath(childRoute,
                                 parentRoutePathOf(routeMap, frame.parentId)),
               childRoute, frame.parentId))
    /\ frames' = framesAfter(TRUE)
    /\ UNCHANGED <<pc, err, routePaths, routeMap, nameMap, manifest, infoVars, firstCall, parentVars>>

\* line 114: the loop of a call is over and the call returns; when it was the
\* outermost call, defineRoutes returns the manifest (line 117)
Return ==
    /\ pc = "defineNestedRoutes"
    /\ frames # <<>>
    /\ frame.i > Len(childRoutes)
    /\ frames' = SubSeq(frames, 1, Len(frames) - 1)
    /\ IF Len(frames) = 1
       THEN pc' = "done" /\ manifest' = defined
       ELSE UNCHANGED <<pc, manifest>>
    /\ UNCHANGED <<err, routePaths, routeMap, nameMap, uniqueRoutes, defined,
                   infoVars, firstCall, parentVars>>

\* files that are no route modules: a style sheet and a nested file that
\* matches none of the patterns of routeRegex
OtherFiles == {absolutePath(F_css), absolutePath(F_nested_other)}

\* the file list without the files that are no route modules
withoutOtherFiles(paths) == SelectSeq(paths, LAMBDA p : p \notin OtherFiles)

\* the caller, after flatRoutesUniversal returned or threw, calls it once
\* more (lines 47-51), with the same file list or with the list less its
\* files that are no route modules; routeMap, nameMap, uniqueRoutes and the
\* manifest under construction are locals of the call that ended, and the new
\* call assigns each of them before it reads it
CallAgain ==
    /\ pc \in {"done", "error"}
    /\ firstCall = NoCall
    /\ firstCall' = [routePaths |-> routePaths, err |-> err, manifest |-> manifest]
    /\ routePaths' \in {routePaths, withoutOtherFiles(routePaths)}
    /\ pc' = "getRouteMap"
    /\ err' = NoError
    /\ manifest' = noManifest
    /\ UNCHANGED <<routeMap, nameMap, uniqueRoutes, frames, defined, infoVars,
                   parentVars>>

Next ==
    \/ CollectRoutes
    \/ ResolveParentIds
    \/ ThrowConflict
    \/ DefineIndexRoute
    \/ DefineRoute
    \/ Return
    \/ CallAgain

Spec == Init /\ [][Next]_vars

-----------------------------------------------------------------------------
(* Claims about getRouteInfo's functions, checked under SpecInfo.          *)

\* isIndexRoute has returned
IndexDecided == pc # "isIndexRoute"

\* getRouteSegments has returned its token list
SegmentsReturned == pc \in {"createRoutePath", "done"}

C7_ErrorReportsRawSegment ==
    pc = "error" =>
        /\ err.kind = "segment"
        /\ err.char \in {"*", ":", "/"}
        /\ Includes(rawRouteSegment, err.char)
        /\ err.segment = rawRouteSegment

\* C8 as stated: getRouteSegments("$lang/$ref.tsx") is [":lang", ":ref"].
C8_AsStated ==
    SegmentsReturned /\ routeIdWithoutRoutes = Id_lang_ref_tsx =>
        routeSegments = << <<":">> \o W_lang, <<":">> \o W_ref >>

\* C8 amended: getRouteSegments("$lang/$ref") is exactly [":lang", ":ref"],
\* the rewrite of `$` being applied at the start of both segments; for
\* "$lang/$ref.tsx" the extension is one more token: [":lang", ":ref", "tsx"].
C8_ParamRewritePerSegment ==
    SegmentsReturned =>
        /\ (routeIdWithoutRoutes = Id_lang_ref =>
               routeSegments = << <<":">> \o W_lang, <<":">> \o W_ref >>)
        /\ (routeIdWithoutRoutes = Id_lang_ref_tsx =>
               routeSegments = << <<":">> \o W_lang, <<":">> \o W_ref, W_tsx >>)

C8_Witness ==
    /\ pc = "done"
    /\ routeIdWithoutRoutes = Id_lang_ref
    /\ Len(routeSegments) = 2

\* C9 as stated: the result of getRouteSegments("files.$.tsx") holds the
\* catch-all marker `*`.
C9_AsStated ==
    SegmentsReturned /\ routeIdWithoutRoutes = Id_files_splat_tsx =>
        \E i \in 1..Len(routeSegments) : routeSegments[i] = <<"*">>

\* C9 amended: getRouteSegments("files.$"), where `$` is the last character
\* of the id, is ["files", "*"]; in "files.$.tsx" the `$` is not the last
\* character and the result is ["files", ":", "tsx"], with no `*`.
C9_SplatAtEndOfId ==
    SegmentsReturned =>
        /\ (routeIdWithoutRoutes = Id_files_splat =>
               routeSegments = << W_files, <<"*">> >>)
        /\ (routeIdWithoutRoutes = Id_files_splat_tsx =>
               routeSegments = << W_files, <<":">>, W_tsx >>)

C9_Witness ==
    /\ pc = "done"
    /\ routeIdWithoutRoutes = Id_files_splat
    /\ routeSegments[2] = <<"*">>

\* C10 as stated: createRoutePath(["users", "$id"], false) is "/users/:id".
C10_AsStated ==
    pc = "done" /\ routeSegments = << W_users, <<"$">> \o W_id >> /\ ~isIndex =>
        routePath = <<"/">> \o W_users \o <<"/", ":">> \o W_id

\* C10 amended: createRoutePath(["users", "$id"], false) is "/users/$id",
\* createRoutePath rewriting no `$`; the path "/users/:id" is what it returns
\* for the segments ["users", ":id"] that getRouteSegments makes of "users.$id".
C10_CreateRoutePathKeepsSegments ==
    pc = "done" /\ ~isIndex =>
        /\ (routeSegments = << W_users, <<"$">> \o W_id >> =>
               routePath = <<"/">> \o W_users \o <<"/", "$">> \o W_id)
        /\ (routeSegments = << W_users, <<":">> \o W_id >> =>
               routePath = <<"/">> \o W_users \o <<"/", ":">> \o W_id)

C10_Witness ==
    /\ pc = "done"
    /\ routeIdWithoutRoutes = Id_users_escaped_id
    /\ routeSegments = << W_users, <<"$">> \o W_id >>
    /\ ~isIndex

-----------------------------------------------------------------------------
(* Claims about flatRoutesUniversal, checked under Spec.                   *)

\* the route set: the RouteInfo values of routeMap
RouteSet == {routeMap[i] : i \in 1..Len(routeMap)}

\* getRouteMap has set the parentId of every route
ParentIdsResolved ==
    \/ pc \in {"defineNestedRoutes", "done"}
    \/ pc = "error" /\ err.kind # "segment"

\* the route is in the manifest that was returned
Emitted(r) ==
    \E j \in 1..Len(manifest) : manifest[j].id = posixJoin(prefix, r.id)

\* an index route of the route set with a route whose parentId is its id
IndexRouteWithChild ==
    \E r, c \in RouteSet : r.index /\ c.parentId = r.id

\* C1 as stated: a route map with an index route that is the parent of
\* another route never produces a manifest.
C1_IndexRouteWithChildFails ==
    pc = "done" => ~IndexRouteWithChild

\* C2 as stated: when two distinct routes have the same URL path and the same
\* index flag, no manifest is returned.
C2_SamePathSameIndexFails ==
    pc = "done" =>
        ~\E r1, r2 \in RouteSet :
            /\ r1.id # r2.id
            /\ r1.path # undefined
            /\ r1.path = r2.path
            /\ r1.index = r2.index

C4_IndexAndNonIndexBothEmitted ==
    \A r1, r2 \in RouteSet :
        r1.path = r2.path /\ r1.index /\ ~r2.index =>
            /\ uniqueRouteIdOf(r1) # uniqueRouteIdOf(r2)
            /\ (pc = "error" /\ err.kind = "conflict" =>
                   {err.id, err.conflict} # {r1.id, r2.id})
            /\ (pc = "done" => Emitted(r1) /\ Emitted(r2))

\* the name of the first k segments of a route
PrefixName(r, k) == JoinSlash(SubSeq(r.segments, 1, k))

\* the lengths of the proper, non-empty segment prefixes of the route's name
\* that are registered in nameMap
RegisteredPrefixes(r) ==
    {k \in 1..(Len(r.segments) - 1) : PrefixName(r, k) \in DOMAIN nameMap}

Longest(ks) == CHOOSE k \in ks : \A other \in ks : other <= k

\* C6: the parentId of every route is the id registered under the longest
\* proper segment prefix of its name that nameMap holds, and is undefined
\* exactly when nameMap holds no proper prefix of the name.
C6_ParentIsLongestRegisteredPrefix ==
    ParentIdsResolved =>
        \A r \in RouteSet :
            IF RegisteredPrefixes(r) = {}
            THEN r.parentId = undefined
            ELSE /\ r.parentId # undefined
                 /\ r.parentId = nameMap[PrefixName(r, Longest(RegisteredPrefixes(r)))]

C6_Witness ==
    /\ ParentIdsResolved
    /\ \E r \in RouteSet :
           /\ Cardinality(RegisteredPrefixes(r)) >= 2
           /\ r.parentId = nameMap[PrefixName(r, Len(r.segments) - 1)]
           /\ r.parentId # nameMap[PrefixName(r, 1)]

-----------------------------------------------------------------------------
(* SpecPath: createRoutePath (lines 307-329) on a list of segments and an  *)
(* index flag of its caller's choosing.                                    *)

\* longest list of segments handed to createRoutePath (SpecPath)
MaxSegments == 2

\* segments with and without a leading and a trailing `_`
PathSegments ==
    { <<"_">> \o W_auth, W_login, W_users, <<"a", "_">>, <<"_">>,
      <<"a", "_", "_">>, <<"_", "a", "_">> }

SegmentLists ==
    UNION { [1..n -> PathSegments] : n \in 0..MaxSegments }

PathInit ==
    /\ pc = "createRoutePath"
    /\ err = NoError
    /\ routeSegments \in SegmentLists
    /\ isIndex \in BOOLEAN
    /\ routeIdWithoutRoutes = <<>>
    /\ routeId = <<>>
    /\ index = 0
    /\ routeSegment = <<>>
    /\ rawRouteSegment = <<>>
    /\ state = "NORMAL"
    /\ routePath = undefined
    /\ routePaths = <<>>
    /\ routeMap = <<>>
    /\ nameMap = <<>>
    /\ uniqueRoutes = <<>>
    /\ frames = <<>>
    /\ defined = <<>>
    /\ manifest = noManifest
    /\ firstCall = NoCall
    /\ candidate = <<>>
    /\ lookups = 0
    /\ foundParentId = undefined

PathNext == CreateRoutePath

SpecPath == PathInit /\ [][PathNext]_vars

\* the reference of C11, in the words of the claim
C11_Kept(segs, idx) ==
    SelectSeq(IF idx /\ segs # <<>> THEN SubSeq(segs, 1, Len(segs) - 1) ELSE segs,
              LAMBDA s : ~(s # <<>> /\ s[1] = "_"))

C11_Stripped(s) ==
    IF s # <<>> /\ s[Len(s)] = "_" THEN SubSeq(s, 1, Len(s) - 1) ELSE s

RECURSIVE C11_Joined(_)
C11_Joined(kept) ==
    IF kept = <<>> THEN <<>>
    ELSE C11_Joined(SubSeq(kept, 1, Len(kept) - 1))
             \o <<"/">> \o C11_Stripped(kept[Len(kept)])

C11_Reference(segs, idx) ==
    IF C11_Joined(C11_Kept(segs, idx)) = <<>> THEN undefined
    ELSE C11_Joined(C11_Kept(segs, idx))

\* C11: for every list of segments and every index flag, createRoutePath
\* returns what the reference returns: the last segment dropped for an index
\* route, the segments starting with `_` skipped, one trailing `_` stripped
\* from each segment kept, "/" and the segment concatenated in order, and
\* undefined for an empty result; createRoutePath(["_auth", "login"], false)
\* is "/login".
C11_CreateRoutePathIsReference ==
    pc = "done" =>
        /\ routePath = C11_Reference(routeSegments, isIndex)
        /\ (routeSegments = << <<"_">> \o W_auth, W_login >> /\ ~isIndex =>
               routePath = <<"/">> \o W_login)

C11_Witness ==
    /\ pc = "done"
    /\ routeSegments = << <<"_">> \o W_auth, W_login >>
    /\ ~isIndex
    /\ routePath = <<"/">> \o W_login

-----------------------------------------------------------------------------
(* More claims about getRouteSegments, checked under SpecInfo.             *)

\* an id built only from ordinary characters and segment separators
C12_Ordinary(id) ==
    \A i \in 1..Len(id) : id[i] \notin {"[", "]", "(", ")", "$", "*", ":"}

\* the non-empty separator-delimited segments of an id, left to right
RECURSIVE C12_SplitFrom(_, _, _, _)
C12_SplitFrom(id, i, cur, acc) ==
    IF i > Len(id) THEN (IF cur = <<>> THEN acc ELSE Append(acc, cur))
    ELSE IF isSegmentSeparator(id[i])
         THEN C12_SplitFrom(id, i + 1, <<>>,
                            IF cur = <<>> THEN acc ELSE Append(acc, cur))
    ELSE C12_SplitFrom(id, i + 1, Append(cur, id[i]), acc)

C12_Split(id) == C12_SplitFrom(id, 1, <<>>, <<>>)

\* a list of at least two segments that ends with the folder marker
C12_EndsWithMarker(segs) ==
    Len(segs) >= 2 /\ segs[Len(segs)] \in {W_index, <<"r", "o", "u", "t", "e">>}

\* an id with a folder that ends with "/index" or "/route"
C12_HasFolderMarker(id) ==
    /\ Includes(id, "/") \/ Includes(id, "\\")
    /\ EndsWith(id, W_slash_index) \/ EndsWith(id, W_slash_route)

C12_Front(segs) == SubSeq(segs, 1, Len(segs) - 1)

\* C12 as stated: for an id of ordinary characters and separators the tokens
\* are the id's separator-delimited segments, in number and order, and
\* tokenizing the tokens joined by "/" returns the same tokens.
C12_AsStated ==
    SegmentsReturned /\ C12_Ordinary(routeIdWithoutRoutes) =>
        /\ routeSegments = C12_Split(routeIdWithoutRoutes)
        /\ getRouteSegments(JoinSlash(routeSegments)).routeSegments = routeSegments

\* C12 amended: an id of ordinary characters and separators is never
\* rejected; its tokens are its non-empty separator-delimited segments in
\* number and order, less the last one when the id has a folder and ends
\* with "/index" or "/route"; tokenizing the tokens joined by "/" returns the
\* same tokens, less the last one when there are at least two tokens and the
\* last is "index" or "route".
C12_SegmentsKeepOrder ==
    C12_Ordinary(routeIdWithoutRoutes) =>
        /\ pc # "error"
        /\ SegmentsReturned =>
              /\ routeSegments =
                     IF C12_HasFolderMarker(routeIdWithoutRoutes)
                     THEN C12_Front(C12_Split(routeIdWithoutRoutes))
                     ELSE C12_Split(routeIdWithoutRoutes)
              /\ getRouteSegments(JoinSlash(routeSegments)).routeSegments =
                     IF C12_EndsWithMarker(routeSegments)
                     THEN C12_Front(routeSegments)
                     ELSE routeSegments

C12_Witness ==
    /\ pc = "done"
    /\ routeIdWithoutRoutes = <<"a", ".">> \o W_index
    /\ routeSegments = << <<"a">>, W_index >>
    /\ getRouteSegments(JoinSlash(routeSegments)).routeSegments = << <<"a">> >>

-----------------------------------------------------------------------------
(* More claims about flatRoutesUniversal, checked under Spec.              *)

\* getRouteMap has filled the two maps without an error
MapsBuilt == pc = "parentIds" \/ ParentIdsResolved

\* the positions in the file list of the files isRouteModuleFile recognizes
RecognizedFiles == {i \in 1..Len(routePaths) : isRouteModulePath(routePaths[i])}

\* the RouteInfo is the value of its id in routeMap (whatever its parentId)
\* and its id is the value of its name in nameMap
Retrievable(info) ==
    /\ \E j \in 1..Len(routeMap) :
           /\ routeMap[j].id = info.id
           /\ routeMap[j].file = info.file
           /\ routeMap[j].segments = info.segments
    /\ info.name \in DOMAIN nameMap
    /\ nameMap[info.name] = info.id

\* C13 as stated: after getRouteMap went through a list of distinct files
\* without error, routeMap and nameMap each hold as many entries as there are
\* recognized files, and the RouteInfo of every recognized file is retrievable
\* from both.
C13_OneEntryPerRecognizedFile ==
    MapsBuilt =>
        /\ Len(routeMap) = Cardinality(RecognizedFiles)
        /\ Cardinality(DOMAIN nameMap) = Cardinality(RecognizedFiles)
        /\ \A i \in RecognizedFiles : Retrievable(getRouteInfo(routePaths[i]))

\* a call of flatRoutesUniversal has returned or thrown
CallEnded == pc \in {"done", "error"}

\* C14: a file that isRouteModuleFile does not recognize, its name holding
\* `*` or `:` or not, is skipped without error and without being tokenized:
\* the call on a file list and the call on the list less such files end with
\* the same manifest, or with the same error.
C14_UnrecognizedFilesChangeNothing ==
    /\ \A i \in 1..Len(routePaths) :
           routePaths[i] \in OtherFiles => ~isRouteModulePath(routePaths[i])
    /\ firstCall # NoCall /\ CallEnded
          /\ routePaths = withoutOtherFiles(firstCall.routePaths)
          => err = firstCall.err /\ manifest = firstCall.manifest

C14_Witness ==
    /\ firstCall # NoCall
    /\ pc = "done"
    /\ routePaths # firstCall.routePaths
    /\ \E i \in 1..Len(firstCall.routePaths) :
           firstCall.routePaths[i] = absolutePath(F_css)
    /\ manifest # <<>>
    /\ manifest = firstCall.manifest

\* C15: when a call throws, for a segment, a conflict or an index route with
\* children, it returns no manifest, whatever routes were defined before the
\* error; a manifest is returned only by a call that threw nothing, and holds
\* every route the call defined.
C15_NoManifestOnError ==
    /\ pc = "error" => err # NoError /\ manifest = noManifest
    /\ err # NoError => pc = "error"
    /\ manifest # noManifest => pc = "done" /\ manifest = defined
    /\ pc = "done" => manifest = defined

C15_Witness ==
    /\ pc = "error"
    /\ err.kind = "conflict"
    /\ defined # <<>>
    /\ manifest = noManifest

\* C16: a second call on the same file list ends as the first did, with the
\* same error or with the same manifest (ids, paths, index flags, parents);
\* the registry of unique routes and the manifest are empty when the second
\* call starts to define routes, and the two maps are those of the first call.
C16_SecondCallSameOutcome ==
    firstCall # NoCall /\ routePaths = firstCall.routePaths =>
        /\ (CallEnded => err = firstCall.err /\ manifest = firstCall.manifest)
        /\ (pc = "defineNestedRoutes" /\ frames = << [parentId |-> undefined, i |-> 1] >>
               => uniqueRoutes = <<>> /\ defined = <<>>)
        /\ (pc = "parentIds" =>
               [routeMap |-> routeMap, nameMap |-> nameMap, err |-> err]
                   = collectRoutes(firstCall.routePaths, 1, emptyMaps))

C16_Witness ==
    /\ firstCall # NoCall
    /\ routePaths = firstCall.routePaths
    /\ pc = "done"
    /\ Len(manifest) >= 2
    /\ manifest = firstCall.manifest
    /\ uniqueRoutes # <<>>

\* the route of routeMap that a route of the manifest was defined from
C20_RouteOf(d) == CHOOSE r \in RouteSet : posixJoin(prefix, r.id) = d.id

C20_Root == <<"root">>

\* C20: the routes are defined parent before child: the first route defined
\* has no parentId; every route defined is defined under the route of its
\* parentId, or at the root when it has none; and a route defined under a
\* parent comes after that parent in the order of definition.
C20_ParentBeforeChild ==
    ParentIdsResolved =>
        /\ defined # <<>> => defined[1].parentId = C20_Root
        /\ \A j \in 1..Len(defined) :
               /\ \E r \in RouteSet : posixJoin(prefix, r.id) = defined[j].id
               /\ defined[j].parentId =
                      IF C20_RouteOf(defined[j]).parentId = undefined THEN C20_Root
                      ELSE posixJoin(prefix, C20_RouteOf(defined[j]).parentId)
               /\ defined[j].parentId # C20_Root =>
                      \E i \in 1..(j - 1) : defined[i].id = defined[j].parentId

C20_Witness ==
    /\ pc = "done"
    /\ firstCall = NoCall
    /\ \E j, k \in 1..Len(manifest) :
           /\ j < k
           /\ manifest[j].parentId # C20_Root
           /\ manifest[k].parentId = C20_Root

-----------------------------------------------------------------------------
(* Claims about the steps of the tokenizer, checked under SpecInfo.        *)

\* the step is one iteration of the loop of getRouteSegments
LoopStep == pc = "loop" /\ index' = index + 1

\* the character the iteration reads
CharRead == routeId[index + 1]

\* the step is the call of pushRouteSegment after the loop
FlushStep == pc = "loop" /\ index' = index /\ pc' # "loop"

\* the changes of state the tokenizer may make, with the character read
C17_Changes ==
    { <<"NORMAL", escapeStart, "ESCAPE">>,
      <<"NORMAL", optionalStart, "OPTIONAL">>,
      <<"ESCAPE", escapeEnd, "NORMAL">>,
      <<"OPTIONAL", optionalEnd, "NORMAL">>,
      <<"OPTIONAL", escapeStart, "OPTIONAL_ESCAPE">>,
      <<"OPTIONAL_ESCAPE", escapeEnd, "OPTIONAL">> }

C17_Step ==
    /\ pc = "getRouteSegments" => state' = "NORMAL"
    /\ FlushStep => state' = state
    /\ LoopStep =>
          /\ state' # state => <<state, CharRead, state'>> \in C17_Changes
          /\ \A c \in C17_Changes :
                 state = c[1] /\ CharRead = c[2] => state' = c[3]
          /\ state = "OPTIONAL" /\ CharRead = optionalEnd =>
                 routeSegment' = Append(routeSegment, "?")
          /\ state \in {"ESCAPE", "OPTIONAL_ESCAPE"} /\ isSegmentSeparator(CharRead) =>
                 /\ routeSegment' = Append(routeSegment, CharRead)
                 /\ routeSegments' = routeSegments
                 /\ state' = state
                 /\ pc' = "loop"

\* C17: the tokenizer starts in NORMAL and changes state only from NORMAL to
\* ESCAPE on `[`, from NORMAL to OPTIONAL on `(`, from ESCAPE to NORMAL on
\* `]`, from OPTIONAL to NORMAL on `)` (with `?` appended to the segment),
\* from OPTIONAL to OPTIONAL_ESCAPE on `[` and from OPTIONAL_ESCAPE to
\* OPTIONAL on `]`; a separator read in ESCAPE or OPTIONAL_ESCAPE is appended
\* to the segment and does not end it.
C17_TokenizerStateChanges == [][C17_Step]_vars

C17_Witness ==
    /\ pc = "loop"
    /\ state = "OPTIONAL"
    /\ index > 1
    /\ routeId[index] = escapeEnd
    /\ routeId[index - 1] = "."
    /\ routeSegment = <<".">>

C18_StepAsStated ==
    LoopStep /\ CharRead = paramPrefixChar =>
        routeSegment' =
            IF state \in {"NORMAL", "OPTIONAL"} /\ routeSegment = <<>>
            THEN (IF index + 1 = Len(routeIdWithoutRoutes) THEN <<"*">> ELSE <<":">>)
            ELSE Append(routeSegment, paramPrefixChar)

\* C18 as stated: in NORMAL and in OPTIONAL a `$` read while the segment is
\* empty becomes `*` exactly when it is the last character of the whole route
\* id handed to getRouteSegments, and `:` otherwise; any other `$` is
\* appended as `$`.
C18_AsStated == [][C18_StepAsStated]_vars

C18_Step ==
    LoopStep /\ CharRead = paramPrefixChar =>
        routeSegment' =
            IF state \in {"NORMAL", "OPTIONAL"} /\ routeSegment = <<>>
            THEN (IF index + 1 = Len(routeId) THEN <<"*">> ELSE <<":">>)
            ELSE Append(routeSegment, paramPrefixChar)

\* C18 amended: in NORMAL and in OPTIONAL a `$` read while the segment is
\* empty becomes `*` exactly when it is the last character of the route id
\* the loop reads, which is the id less a trailing "/index" or "/route" when
\* it has a folder, and `:` otherwise; a `$` read while the segment is not
\* empty, or in ESCAPE or OPTIONAL_ESCAPE, is appended as `$`.
C18_ParamPrefixRewrite == [][C18_Step]_vars

C18_Witness ==
    /\ pc = "loop"
    /\ state = "OPTIONAL"
    /\ index = Len(routeId)
    /\ routeId[index] = paramPrefixChar
    /\ routeSegment = <<"*">>

\* a text that pushRouteSegment refuses
C19_Refused(raw) == Includes(raw, "*") \/ Includes(raw, ":") \/ Includes(raw, "/")

C19_Step ==
    /\ \A i \in 1..Len(routeSegments') : routeSegments'[i] # <<>>
    /\ FlushStep =>
          IF routeSegment = <<>>
          THEN pc' = "createRoutePath" /\ routeSegments' = routeSegments
          ELSE IF C19_Refused(rawRouteSegment)
               THEN /\ pc' = "error"
                    /\ err'.kind = "segment"
                    /\ Includes(rawRouteSegment, err'.char)
          ELSE /\ pc' = "createRoutePath"
               /\ routeSegments' = Append(routeSegments, routeSegment)

\* C19: at the end of the id the segment read so far is pushed, whatever the
\* state: an id that ends in ESCAPE, OPTIONAL or OPTIONAL_ESCAPE is refused
\* only for a `*`, `:` or `/` in the segment, never for being unterminated;
\* the text read becomes the last token as it is, with no `?` added; and the
\* list of tokens never holds an empty token.
C19_FlushFromAnyState == [][C19_Step]_vars

C19_Witness ==
    /\ pc = "done"
    /\ state = "OPTIONAL_ESCAPE"
    /\ routeSegments = << <<"a">> >>

-----------------------------------------------------------------------------
(* Claims about the paths and the parents of the routes, checked under     *)
(* Spec.                                                                   *)

\* a path, with the absent path taken as the empty string
C21_PathOrEmpty(path) == IF path = undefined THEN <<>> ELSE path

\* the path of the parent of a route of routeMap, empty for a route at the
\* root and for a parent without a path
C21_ParentPath(r) ==
    IF r.parentId = undefined THEN <<>>
    ELSE C21_PathOrEmpty(mapGet(routeMap, r.parentId).path)

\* child path C, parent path P, relative path rel: C is P, or P + "/" + rel
C21_Composes(C, P, rel) ==
    /\ C = IF rel = <<>> THEN P ELSE P \o <<"/">> \o rel
    /\ StartsWith(C, P)
    /\ Len(C) > Len(P) => C[Len(P) + 1] = "/"
    /\ rel # <<>> => rel[1] # "/"

\* C21: the relative path of every route defined is the route's path with
\* the path of its parent removed from its front, and the leading "/"
\* removed: the route's path is the parent's path when the relative path is
\* empty, and the parent's path, "/" and the relative path otherwise, the
\* path of a parent at the root or without a path being empty; the parent's
\* path ends where a segment of the route's path ends.
C21_RelativePath ==
    ParentIdsResolved =>
        \A j \in 1..Len(defined) :
            C21_Composes(C21_PathOrEmpty(C20_RouteOf(defined[j]).path),
                         C21_ParentPath(C20_RouteOf(defined[j])),
                         C21_PathOrEmpty(defined[j].path))

C21_Witness ==
    /\ pc = "done"
    /\ \E j, k \in 1..Len(manifest) :
           /\ manifest[j].parentId # C20_Root
           /\ manifest[j].path = <<"b">>
           /\ C21_ParentPath(C20_RouteOf(manifest[j])) = <<"/", "a">>
           /\ manifest[k].index
           /\ manifest[k].path = undefined
           /\ C21_ParentPath(C20_RouteOf(manifest[k])) = <<"/", "a">>

-----------------------------------------------------------------------------
(* SpecParent: findParentRouteId (lines 272-283) on the segments of a      *)
(* route and a map of names, one iteration of the loop per step.           *)

\* most segments of the route handed to findParentRouteId (SpecParent)
MaxDepth == 3

ParentSegments == { <<"a">>, <<"b">>, <<"_", "x">> }

\* the segments of the route
RouteSegmentLists ==
    UNION { [1..n -> ParentSegments] : n \in 1..MaxDepth }

\* the id of the flat file of a name: the segments joined by "."
flatIdOfName(name) ==
    [i \in 1..Len(name) |-> IF name[i] = "/" THEN "." ELSE name[i]]

\* the names of the proper prefixes of a list of segments, and one name more
NamesAbove(segs) ==
    { JoinSlash(SubSeq(segs, 1, k)) : k \in 1..(Len(segs) - 1) }
        \cup { <<"b", "/", "b", "/", "b", "/", "b">> }

\* the maps of names: the route's own name, and any of the names above
NameMaps(segs) ==
    { [name \in registered \cup {JoinSlash(segs)} |-> flatIdOfName(name)] :
          registered \in SUBSET NamesAbove(segs) }

ParentInit ==
    /\ pc = "findParentRouteId"
    /\ err = NoError
    /\ routeSegments \in RouteSegmentLists
    /\ nameMap \in NameMaps(routeSegments)
    /\ candidate = <<>>
    /\ lookups = 0
    /\ foundParentId = undefined
    /\ routeIdWithoutRoutes = <<>>
    /\ routeId = <<>>
    /\ isIndex = FALSE
    /\ index = 0
    /\ routeSegment = <<>>
    /\ rawRouteSegment = <<>>
    /\ state = "NORMAL"
    /\ routePath = undefined
    /\ routePaths = <<>>
    /\ routeMap = <<>>
    /\ uniqueRoutes = <<>>
    /\ frames = <<>>
    /\ defined = <<>>
    /\ manifest = noManifest
    /\ firstCall = NoCall

\* line 276
EnterFindParentRouteId ==
    /\ pc = "findParentRouteId"
    /\ candidate' = JoinSlash(SubSeq(routeSegments, 1, Len(routeSegments) - 1))
    /\ pc' = "while"
    /\ UNCHANGED <<err, lookups, foundParentId, infoVars, flatVars, firstCall>>

\* lines 277-279: the name is registered, its route's id is returned
ReturnParentRoute ==
    /\ pc = "while"
    /\ candidate # <<>>
    /\ candidate \in DOMAIN nameMap
    /\ lookups' = lookups + 1
    /\ foundParentId' = nameMap[candidate]
    /\ pc' = "done"
    /\ UNCHANGED <<err, candidate, infoVars, flatVars, firstCall>>

\* lines 277-280: the name is not registered and is cut at its last "/"
CutParentName ==
    /\ pc = "while"
    /\ candidate # <<>>
    /\ candidate \notin DOMAIN nameMap
    /\ lookups' = lookups + 1
    /\ candidate' = cutAtLastSlash(candidate)
    /\ UNCHANGED <<pc, err, foundParentId, infoVars, flatVars, firstCall>>

\* lines 277 and 282: the name is empty
ReturnUndefined ==
    /\ pc = "while"
    /\ candidate = <<>>
    /\ foundParentId' = undefined
    /\ pc' = "done"
    /\ UNCHANGED <<err, candidate, lookups, infoVars, flatVars, firstCall>>

ParentNext ==
    \/ EnterFindParentRouteId
    \/ ReturnParentRoute
    \/ CutParentName
    \/ ReturnUndefined

\* the statements of findParentRouteId run one after the other to its return
SpecParent == ParentInit /\ [][ParentNext]_vars /\ WF_vars(ParentNext)

\* the number of "/" of a name
C22_Slashes(name) == Cardinality({i \in 1..Len(name) : name[i] = "/"})

\* an iteration of the loop that does not return
C22_CutStep == pc = "while" /\ pc' = "while"

C22_Step ==
    /\ C22_CutStep =>
          /\ Len(candidate') < Len(candidate)
          /\ candidate' =
                 IF Includes(candidate, "/")
                 THEN SubSeq(candidate, 1, LastIndexOf(candidate, "/") - 1)
                 ELSE <<>>
    /\ lookups' <= Len(routeSegments)
    /\ pc' = "done" =>
          foundParentId' = findParentRouteId([segments |-> routeSegments], nameMap)

\* C22: findParentRouteId terminates: every iteration that does not return
\* makes the candidate name strictly shorter, cutting it at its last "/" or
\* emptying it when it has none; the loop looks up at most as many names as
\* the route has segments; and it returns the id of the first registered
\* ancestor, or undefined.
C22_FindParentTerminates == [][C22_Step]_vars /\ <>(pc = "done")

C22_Witness ==
    /\ pc = "done"
    /\ Len(routeSegments) = 3
    /\ lookups = 2
    /\ foundParentId = undefined
    /\ DOMAIN nameMap # {JoinSlash(routeSegments)}

-----------------------------------------------------------------------------
(* Claims about the tree of the routes, checked under Spec.                *)

\* the route of routeMap that is the parent of a route with a parentId
C23_Parent(r) == mapGet(routeMap, r.parentId)

\* following the parentId of the route at most n times leads to a route that
\* has none
RECURSIVE C23_ReachesRoot(_, _)
C23_ReachesRoot(r, n) ==
    IF r.parentId = undefined THEN TRUE
    ELSE n > 0 /\ C23_ReachesRoot(C23_Parent(r), n - 1)

\* C23: once getRouteMap has set the parentIds, the parent of every route
\* that has a parentId is a route of routeMap, is another route, and has as
\* its segments a strictly shorter prefix of the route's segments; following
\* the parentIds from any route leads to a route without parentId in fewer
\* steps than routeMap has routes.
C23_ParentsFormForest ==
    ParentIdsResolved =>
        \A r \in RouteSet :
            /\ r.parentId # undefined =>
                  /\ \E p \in RouteSet : p.id = r.parentId
                  /\ r.parentId # r.id
                  /\ Len(C23_Parent(r).segments) < Len(r.segments)
                  /\ SubSeq(r.segments, 1, Len(C23_Parent(r).segments))
                         = C23_Parent(r).segments
            /\ C23_ReachesRoot(r, Len(routeMap) - 1)

C23_Witness ==
    /\ ParentIdsResolved
    /\ firstCall = NoCall
    /\ \E r \in RouteSet :
           /\ r.parentId # undefined
           /\ C23_Parent(r).parentId # undefined
           /\ C23_Parent(C23_Parent(r)).parentId = undefined

\* one of the ancestors of the route is an index route
RECURSIVE C24_HasIndexAncestor(_)
C24_HasIndexAncestor(r) ==
    IF r.parentId = undefined THEN FALSE
    ELSE C23_Parent(r).index \/ C24_HasIndexAncestor(C23_Parent(r))

\* how many routes of the manifest were defined from the route
C24_TimesEmitted(r) ==
    Cardinality({j \in 1..Len(manifest) : manifest[j].id = posixJoin(prefix, r.id)})

\* C24: when a manifest is returned, every route of routeMap without an
\* index route among its ancestors is in it once, no route is in it twice,
\* no route with an index route among its ancestors is in it, and it holds
\* nothing but routes of routeMap; a route of the manifest that is an index
\* route is the parent of no route of the manifest.
C24_EmittedOnceUnlessBelowIndex ==
    pc = "done" =>
        /\ \A r \in RouteSet :
               C24_TimesEmitted(r) = IF C24_HasIndexAncestor(r) THEN 0 ELSE 1
        /\ \A j \in 1..Len(manifest) :
               /\ \E r \in RouteSet : manifest[j].id = posixJoin(prefix, r.id)
               /\ manifest[j].index =>
                      \A k \in 1..Len(manifest) : manifest[k].parentId # manifest[j].id

C24_Witness ==
    /\ pc = "done"
    /\ firstCall = NoCall
    /\ \E r, q \in RouteSet :
           /\ C24_HasIndexAncestor(r)
           /\ C24_TimesEmitted(r) = 0
           /\ q.parentId # undefined
           /\ C24_TimesEmitted(q) = 1

=============================================================================
